---- MODULE Spec2Model ----
(***************************************************************************)
(* Model of server/main.py: a FastAPI application with two routes.         *)
(*   GET /       -> root()     returns {"message": "Hello World"}          *)
(*   GET /token  -> getToken() returns client.tokens.single_use.create(    *)
(*                                  token_type="realtime_scribe")          *)
(* Both handlers are coroutines (async def) of one event loop.  getToken   *)
(* contains no await: the call of the synchronous ElevenLabs client is     *)
(* made on the event loop itself, which runs nothing else until the call   *)
(* returns or raises.                                                      *)
(***************************************************************************)
EXTENDS Integers, Sequences, FiniteSets, TLC

\* ---- bounds -------------------------------------------------------------
\* number of inbound requests of one run
MaxReq == 3
\* number of distinct single-use tokens the upstream can issue
MaxTok == 3

Req == 1..MaxReq
TokenIds == 1..MaxTok

\* ---- values -------------------------------------------------------------
\* os.getenv("ELEVEN") is None when the variable is not set
NoKey == "None"
Keys == {NoKey, "sk_live"}

\* caller-supplied request data (query string); neither handler declares a
\* parameter, so it is never read
Data == {"", "token_type=tts_websocket"}

Kinds == {"root", "token"}

\* the upstream's token object; the relay never looks inside it
Payloads == [token : TokenIds, expires_in : {60, 900}]

HelloWorld == [message |-> "Hello World"]

NoResp == [status |-> 0, body |-> "none"]

VARIABLES
    ELEVEN,     \* the process environment's value of ELEVEN after load_dotenv
    api_key,    \* client's api_key, set when the module is imported
    req,        \* req[r]: the inbound request r: its route, data and position
    resp,       \* resp[r]: the HTTP response sent for r, NoResp before
    calls,      \* the invocations of client.tokens.single_use.create, in order
    issued      \* the upstream's own state: the tokens it has issued

vars == <<ELEVEN, api_key, req, resp, calls, issued>>

\* ---- helpers ------------------------------------------------------------
\* the event loop runs one coroutine at a time and getToken never yields:
\* a handler can start only when no getToken is inside its upstream call
LoopIdle == \A q \in Req : req[q].state # "running"

\* index in calls of the (last) invocation made for request r, 0 if none
RECURSIVE CallIdx(_, _)
CallIdx(r, i) ==
    IF i = 0 THEN 0
    ELSE IF calls[i].rid = r THEN i
    ELSE CallIdx(r, i - 1)

CallOf(r) == CallIdx(r, Len(calls))

\* number of invocations made for request r
CallsFor(r) == Cardinality({i \in 1..Len(calls) : calls[i].rid = r})

\* ---- startup ------------------------------------------------------------
\* load_dotenv(".env"); client = ElevenLabs(base_url=..., api_key=os.getenv("ELEVEN"))
Init ==
    /\ ELEVEN \in Keys
    /\ api_key = ELEVEN
    /\ req = [r \in Req |-> [state |-> "idle", kind |-> "root", data |-> ""]]
    /\ resp = [r \in Req |-> NoResp]
    /\ calls = <<>>
    /\ issued = {}

\* ---- operations ---------------------------------------------------------
\* an HTTP GET arrives and is routed by its path; its data is the caller's
Arrive(r, k, d) ==
    /\ req[r].state = "idle"
    /\ req' = [req EXCEPT ![r] = [state |-> "pending", kind |-> k, data |-> d]]
    /\ UNCHANGED <<ELEVEN, api_key, resp, calls, issued>>

\* variant of root: the liveness answer depends on the credential
root_keyed(r) ==
    /\ req[r].state = "pending"
    /\ req[r].kind = "root"
    /\ LoopIdle
    /\ resp' = [resp EXCEPT ![r] = [status |-> IF api_key = NoKey THEN 503 ELSE 200,
                                    body |-> HelloWorld]]
    /\ req' = [req EXCEPT ![r].state = "done"]
    /\ UNCHANGED <<ELEVEN, api_key, calls, issued>>

\* variant of root: the liveness probe pings the upstream
root_ping(r) ==
    /\ req[r].state = "pending"
    /\ req[r].kind = "root"
    /\ LoopIdle
    /\ resp' = [resp EXCEPT ![r] = [status |-> 200, body |-> HelloWorld]]
    /\ req' = [req EXCEPT ![r].state = "done"]
    /\ calls' = Append(calls, [rid |-> r,
                               token_type |-> "realtime_scribe",
                               api_key |-> api_key,
                               outcome |-> "returned",
                               result |-> 0])
    /\ UNCHANGED <<ELEVEN, api_key, issued>>

\* async def root(): return {"message": "Hello World"}
root(r) ==
    /\ req[r].state = "pending"
    /\ req[r].kind = "root"
    /\ LoopIdle
    /\ resp' = [resp EXCEPT ![r] = [status |-> 200, body |-> HelloWorld]]
    /\ req' = [req EXCEPT ![r].state = "done"]
    /\ UNCHANGED <<ELEVEN, api_key, calls, issued>>

\* variant of getToken: the classifier is taken from the query string
getToken_fromQuery(r) ==
    /\ req[r].state = "pending"
    /\ req[r].kind = "token"
    /\ LoopIdle
    /\ calls' = Append(calls, [rid |-> r,
                               token_type |-> IF req[r].data = "token_type=tts_websocket"
                                              THEN "tts_websocket"
                                              ELSE "realtime_scribe",
                               api_key |-> api_key,
                               outcome |-> "outstanding",
                               result |-> 0])
    /\ req' = [req EXCEPT ![r].state = "running"]
    /\ UNCHANGED <<ELEVEN, api_key, resp, issued>>

\* variant of getToken: a built-in key stands in for a missing credential
getToken_fallbackKey(r) ==
    /\ req[r].state = "pending"
    /\ req[r].kind = "token"
    /\ LoopIdle
    /\ calls' = Append(calls, [rid |-> r,
                               token_type |-> "realtime_scribe",
                               api_key |-> IF api_key = NoKey THEN "sk_live" ELSE api_key,
                               outcome |-> "outstanding",
                               result |-> 0])
    /\ req' = [req EXCEPT ![r].state = "running"]
    /\ UNCHANGED <<ELEVEN, api_key, resp, issued>>

\* async def getToken(): the call client.tokens.single_use.create(
\*     token_type="realtime_scribe") is made, with the client's api_key
getToken(r) ==
    /\ req[r].state = "pending"
    /\ req[r].kind = "token"
    /\ LoopIdle
    /\ calls' = Append(calls, [rid |-> r,
                               token_type |-> "realtime_scribe",
                               api_key |-> api_key,
                               outcome |-> "outstanding",
                               result |-> 0])
    /\ req' = [req EXCEPT ![r].state = "running"]
    /\ UNCHANGED <<ELEVEN, api_key, resp, issued>>

\* variant of getTokenReturn: the relay rewrites the token's lifetime
getTokenReturn_rewrite(r, p) ==
    /\ req[r].state = "running"
    /\ calls[CallOf(r)].api_key # NoKey
    /\ p.token \notin issued
    /\ issued' = issued \cup {p.token}
    /\ calls' = [calls EXCEPT ![CallOf(r)].outcome = "returned",
                              ![CallOf(r)].result = p]
    /\ resp' = [resp EXCEPT ![r] = [status |-> 200,
                                    body |-> [p EXCEPT !.expires_in = 60]]]
    /\ req' = [req EXCEPT ![r].state = "done"]
    /\ UNCHANGED <<ELEVEN, api_key>>

\* variant of getTokenReturn: the first token issued is kept and served again
getTokenReturn_cached(r, p) ==
    /\ req[r].state = "running"
    /\ calls[CallOf(r)].api_key # NoKey
    /\ p.token \notin issued
    /\ issued' = issued \cup {p.token}
    /\ calls' = [calls EXCEPT ![CallOf(r)].outcome = "returned",
                              ![CallOf(r)].result = p]
    /\ resp' = [resp EXCEPT ![r] =
                  [status |-> 200,
                   body |-> IF \E i \in 1..Len(calls) : calls[i].outcome = "returned"
                            THEN calls[CHOOSE i \in 1..Len(calls) :
                                         calls[i].outcome = "returned"].result
                            ELSE p]]
    /\ req' = [req EXCEPT ![r].state = "done"]
    /\ UNCHANGED <<ELEVEN, api_key>>

\* the call returns the token object p and getToken returns it: the route
\* has no response_model, the response is 200 with the returned object
getTokenReturn(r, p) ==
    /\ req[r].state = "running"
    /\ calls[CallOf(r)].api_key # NoKey
    /\ p.token \notin issued
    /\ issued' = issued \cup {p.token}
    /\ calls' = [calls EXCEPT ![CallOf(r)].outcome = "returned",
                              ![CallOf(r)].result = p]
    /\ resp' = [resp EXCEPT ![r] = [status |-> 200, body |-> p]]
    /\ req' = [req EXCEPT ![r].state = "done"]
    /\ UNCHANGED <<ELEVEN, api_key>>

\* variant of getTokenRaise: the handler calls the upstream again
getTokenRaise_retry(r) ==
    /\ req[r].state = "running"
    /\ CallsFor(r) < 2
    /\ calls' = Append([calls EXCEPT ![CallOf(r)].outcome = "raised"],
                       [rid |-> r,
                        token_type |-> "realtime_scribe",
                        api_key |-> api_key,
                        outcome |-> "outstanding",
                        result |-> 0])
    /\ UNCHANGED <<ELEVEN, api_key, req, resp, issued>>

\* variant of getTokenRaise: the handler answers with a token of its own
getTokenRaise_fabricate(r) ==
    /\ req[r].state = "running"
    /\ calls' = [calls EXCEPT ![CallOf(r)].outcome = "raised"]
    /\ resp' = [resp EXCEPT ![r] = [status |-> 200,
                                    body |-> [token |-> 0, expires_in |-> 60]]]
    /\ req' = [req EXCEPT ![r].state = "done"]
    /\ UNCHANGED <<ELEVEN, api_key, issued>>

\* variant of getTokenRaise: the handler drops the credential on failure
getTokenRaise_dropKey(r) ==
    /\ req[r].state = "running"
    /\ calls' = [calls EXCEPT ![CallOf(r)].outcome = "raised"]
    /\ resp' = [resp EXCEPT ![r] = [status |-> 500, body |-> "Internal Server Error"]]
    /\ req' = [req EXCEPT ![r].state = "done"]
    /\ api_key' = NoKey
    /\ UNCHANGED <<ELEVEN, issued>>

\* the call raises; getToken has no try/except, the exception leaves the
\* handler and the response is the server's 500
getTokenRaise(r) ==
    /\ req[r].state = "running"
    /\ calls' = [calls EXCEPT ![CallOf(r)].outcome = "raised"]
    /\ resp' = [resp EXCEPT ![r] = [status |-> 500, body |-> "Internal Server Error"]]
    /\ req' = [req EXCEPT ![r].state = "done"]
    /\ UNCHANGED <<ELEVEN, api_key, issued>>

Next ==
    \/ \E r \in Req, k \in Kinds, d \in Data : Arrive(r, k, d)
    \/ \E r \in Req : root(r)
    \/ \E r \in Req : getToken(r)
    \/ \E r \in Req, p \in Payloads : getTokenReturn(r, p)
    \/ \E r \in Req : getTokenRaise(r)

Spec == Init /\ [][Next]_vars

TypeOK ==
    /\ ELEVEN \in Keys
    /\ api_key \in Keys
    /\ \A r \in Req : req[r].state \in {"idle", "pending", "running", "done"}
    /\ issued \subseteq TokenIds

\* ---- properties ---------------------------------------------------------
TokenReqs == {r \in Req : req[r].kind = "token" /\ req[r].state \in {"running", "done"}}
Answered(r) == req[r].state = "done"
Handle(r) == root(r) \/ getToken(r)

\* C1: when the upstream call made for a GET /token request returned the
\* payload p, the response to that request is a 200 whose body is exactly p
C1_RelayUnchanged ==
    \A r \in Req :
        (Answered(r) /\ req[r].kind = "token" /\ calls[CallOf(r)].outcome = "returned")
            => /\ resp[r].status = 200
               /\ resp[r].body = calls[CallOf(r)].result
               /\ resp[r].body \in Payloads

C1_Witness ==
    \E r \in Req :
        /\ Answered(r) /\ req[r].kind = "token"
        /\ calls[CallOf(r)].outcome = "returned"
        /\ calls[CallOf(r)].result.expires_in = 900
        /\ resp[r].status = 200

\* C2: the number of upstream calls equals the number of GET /token requests
\* handled; each such request has exactly one call, made for it, whether the
\* call returned or raised, and no other request has any
C2_OneCallPerTokenRequest ==
    /\ Len(calls) = Cardinality(TokenReqs)
    /\ \A r \in Req : CallsFor(r) = IF r \in TokenReqs THEN 1 ELSE 0

C2_Witness ==
    /\ Len(calls) = 2
    /\ \E r, q \in Req :
        /\ Answered(r) /\ Answered(q)
        /\ calls[CallOf(r)].outcome = "raised"
        /\ calls[CallOf(q)].outcome = "returned"

\* C3: a GET /token request whose upstream call raised is answered with a
\* non-2xx status, and every 200 answer to GET /token carries a token the
\* upstream issued in a call that returned
C3_FailureIsNotSuccess ==
    \A r \in Req :
        (Answered(r) /\ req[r].kind = "token")
            => /\ calls[CallOf(r)].outcome = "raised" => resp[r].status \notin 200..299
               /\ resp[r].status \in 200..299
                    => /\ calls[CallOf(r)].outcome = "returned"
                       /\ resp[r].body.token \in issued

C3_Witness ==
    \E r \in Req :
        /\ Answered(r) /\ req[r].kind = "token"
        /\ calls[CallOf(r)].outcome = "raised"
        /\ calls[CallOf(r)].api_key # NoKey
        /\ resp[r].status = 500

\* C4: every upstream call carries the same classifier, "realtime_scribe",
\* whatever data the caller sent with the request
C4_ClassifierFixed ==
    \A i, j \in 1..Len(calls) :
        /\ calls[i].token_type = calls[j].token_type
        /\ calls[i].token_type = "realtime_scribe"

C4_Witness ==
    \E i, j \in 1..Len(calls) :
        /\ req[calls[i].rid].data = ""
        /\ req[calls[j].rid].data = "token_type=tts_websocket"

\* C5: every answer to GET / is status 200 with the body
\* {"message": "Hello World"}
C5_RootAlwaysHello ==
    \A r \in Req :
        (Answered(r) /\ req[r].kind = "root")
            => resp[r] = [status |-> 200, body |-> HelloWorld]

C5_Witness ==
    \E r, q \in Req :
        /\ Answered(r) /\ req[r].kind = "root" /\ req[r].data # ""
        /\ api_key = NoKey
        /\ Answered(q) /\ req[q].kind = "token" /\ resp[q].status = 500

C7_NoWaitOnOtherUpstream ==
    \A r \in Req : req[r].state = "pending" => ENABLED Handle(r)

\* C8: the credential equals the value read from the environment at startup
\* in every state, and every upstream call was made with it
C8_CredentialImmutable ==
    /\ api_key = ELEVEN
    /\ \A i \in 1..Len(calls) : calls[i].api_key = ELEVEN

C8_Witness ==
    /\ ELEVEN # NoKey
    /\ Len(calls) = MaxReq
    /\ \E i \in 1..Len(calls) : calls[i].outcome = "raised"
    /\ \A r \in Req : Answered(r)

\* C9: each answer to GET /token is the outcome of the call made for that
\* very request, and no issued token is delivered in two responses
C9_OwnResultOnly ==
    /\ \A r \in Req :
        (Answered(r) /\ req[r].kind = "token")
            => \E i \in 1..Len(calls) :
                /\ calls[i].rid = r
                /\ IF resp[r].status = 200
                   THEN calls[i].outcome = "returned" /\ calls[i].result = resp[r].body
                   ELSE calls[i].outcome = "raised"
    /\ \A r, q \in Req :
        (/\ r # q
         /\ req[r].kind = "token" /\ req[q].kind = "token"
         /\ resp[r].status = 200 /\ resp[q].status = 200)
            => resp[r].body.token # resp[q].body.token

C9_Witness ==
    \E r, q \in Req :
        /\ r # q
        /\ req[r].kind = "token" /\ req[q].kind = "token"
        /\ resp[r].status = 200 /\ resp[q].status = 200
        /\ calls[1].rid = q /\ calls[2].rid = r

\* C10: a step that answers a GET / request makes no upstream call and
\* leaves the credential, the calls and every other request as they were
C10_RootNoSideEffects ==
    [][\A r \in Req :
        (req[r].kind = "root" /\ req[r].state = "pending" /\ req'[r].state = "done")
            => /\ calls' = calls
               /\ api_key' = api_key
               /\ ELEVEN' = ELEVEN
               /\ issued' = issued
               /\ \A q \in Req \ {r} : req'[q] = req[q] /\ resp'[q] = resp[q]]_vars

C10_Witness ==
    \E r, q \in Req :
        /\ Answered(r) /\ req[r].kind = "root"
        /\ req[q].kind = "token" /\ req[q].state = "pending"
        /\ Len(calls) > 0
====
